---- MODULE Spec2Model ----
(***************************************************************************)
(* worldfall: dungeon generation, fog of war, melee combat, enemy chase    *)
(* and the turn loop of Game::run, as a state machine.                     *)
(*                                                                         *)
(* Coordinates are usize values; a cell is the pair <<x, y>>.  The grid    *)
(* tiles[y][x] / revealed[y][x] of the source is a function over Cells.    *)
(* Sequences are 1-based here, Vec indices in the source are 0-based:      *)
(* rooms[k] of the model is self.rooms[k-1] of the source.                 *)
(*                                                                         *)
(* The dimensions of the map, the room count, the room sizes and the chase *)
(* range are scaled down from the values of main.rs (100, 35, 12, 4..8, 8) *)
(* so that every dungeon can be enumerated.  Two layouts are drawn in      *)
(* Init: a strip of single-cell rooms (several enemies) and a map of       *)
(* larger rooms (potions).  GenSpec runs Game::new alone on more layouts;  *)
(* CombatSpec, StepSpec and RevealSpec apply the attack functions,         *)
(* handle_player_move and reveal_room to drawn arguments.                  *)
(***************************************************************************)
EXTENDS Integers, Sequences, FiniteSets, TLC

\* ---- bounds of the model (scaled-down arguments of Map::new / generate) ----
StripWidth == 8
StripHeight == 4
StripRooms == 3
StripRoomSize == 1
HallWidth == 8
HallHeight == 5
HallRooms == 2
HallRoomSize == 2
ChaseRange == 3
GenWidth == 7
GenHeight == 6
GenRooms == 3
GenMinRoomSize == 1
GenMaxRoomSize == 2
StepWidth == 3
StepHeight == 1
RevealWidth == 3
RevealHeight == 3
CombatMaxHp == 6
CombatMaxPower == 4

\* ---- program constants ----
PLAYER_HP == 20
PLAYER_POWER == 5
GOBLIN_HP == 6
GOBLIN_POWER == 3
PLAYER_VARIANCE == 3
ENEMY_VARIANCE == 2
HEAL_AMOUNT == 5
ATTEMPTS_PER_ROOM == 10
UsizeModulus == 2147483647

VARIABLES width, height, tiles, rooms, revealed, params, attempt,
          player, enemies, running, pc, action, outcome

vars == <<width, height, tiles, rooms, revealed, params, attempt,
          player, enemies, running, pc, action, outcome>>

\* ---- integer helpers ----
Min(a, b) == IF a < b THEN a ELSE b
Max(a, b) == IF a > b THEN a ELSE b
Abs(a) == IF a < 0 THEN -a ELSE a
\* faulty variant: the sign is reversed
Signum_reversed(a) == IF a > 0 THEN -1 ELSE IF a < 0 THEN 1 ELSE 0
Signum(a) == IF a > 0 THEN 1 ELSE IF a < 0 THEN -1 ELSE 0
\* `(v as i32 + d) as usize`: a negative value wraps to the top of usize.
\* The modulus stands for 2^64 (beyond TLC's integers); a wrapped value is only
\* ever compared against width and height.
AsUsize(i) == i % UsizeModulus
SaturatingSub(a, b) == IF a >= b THEN a - b ELSE 0

Cells == (0 .. width - 1) \X (0 .. height - 1)

\* ---- Tile ----
Tile == {"Wall", "Floor", "Corridor", "Door", "Potion"}
TileIsWalkable(t) == t \in {"Floor", "Corridor", "Door", "Potion"}

\* ---- Room ----
NewRoom(x, y, w, h) == [x |-> x, y |-> y, width |-> w, height |-> h]
center(r) == <<r.x + (r.width \div 2), r.y + (r.height \div 2)>>
\* faulty variant: the plain rectangle overlap, without the margin
intersects_no_margin(a, b) ==
    /\ a.x < b.x + b.width
    /\ a.x + a.width > b.x
    /\ a.y < b.y + b.height
    /\ a.y + a.height > b.y
intersects(a, b) ==
    /\ a.x < b.x + b.width + 1
    /\ a.x + a.width + 1 > b.x
    /\ a.y < b.y + b.height + 1
    /\ a.y + a.height + 1 > b.y
InRoom(c, r) ==
    /\ c[1] >= r.x /\ c[1] < r.x + r.width
    /\ c[2] >= r.y /\ c[2] < r.y + r.height

\* ---- Map queries ----
\* faulty variant: a coordinate outside the grid reads as open floor
get_tile_open_border(t, x, y) == IF <<x, y>> \in DOMAIN t THEN t[<<x, y>>] ELSE "Floor"
get_tile(t, x, y) == IF <<x, y>> \in DOMAIN t THEN t[<<x, y>>] ELSE "None"
\* faulty variant: every cell of the grid can be entered, walls included
is_walkable_through_walls(t, x, y) == get_tile(t, x, y) # "None"
is_walkable(t, x, y) == TileIsWalkable(get_tile(t, x, y))
is_door(t, x, y) == get_tile(t, x, y) = "Door"
is_corridor(t, x, y) == get_tile(t, x, y) = "Corridor"
is_potion(t, x, y) == get_tile(t, x, y) = "Potion"
is_revealed(rv, x, y) == IF <<x, y>> \in DOMAIN rv THEN rv[<<x, y>>] ELSE FALSE
\* index (1-based) of the first room containing (x, y); 0 for None
room_at(rs, x, y) ==
    IF \E k \in 1 .. Len(rs) : InRoom(<<x, y>>, rs[k])
    THEN CHOOSE k \in 1 .. Len(rs) :
            /\ InRoom(<<x, y>>, rs[k])
            /\ \A j \in 1 .. k - 1 : ~InRoom(<<x, y>>, rs[j])
    ELSE 0

\* ---- carving ----
carve_room(t, r) == [c \in DOMAIN t |-> IF InRoom(c, r) THEN "Floor" ELSE t[c]]
\* faulty variant: the line is carved through whatever tile lies on it
carve_horizontal_corridor_overwrite(t, x1, x2, y) ==
    [c \in DOMAIN t |->
        IF c[2] = y /\ c[1] >= Min(x1, x2) /\ c[1] <= Max(x1, x2)
        THEN "Corridor" ELSE t[c]]
carve_horizontal_corridor(t, x1, x2, y) ==
    [c \in DOMAIN t |->
        IF c[2] = y /\ c[1] >= Min(x1, x2) /\ c[1] <= Max(x1, x2) /\ t[c] = "Wall"
        THEN "Corridor" ELSE t[c]]
carve_vertical_corridor(t, y1, y2, x) ==
    [c \in DOMAIN t |->
        IF c[1] = x /\ c[2] >= Min(y1, y2) /\ c[2] <= Max(y1, y2) /\ t[c] = "Wall"
        THEN "Corridor" ELSE t[c]]
\* faulty variant: the second leg is carved along the wrong centre's column or
\* row, so the two legs do not meet in a corner
carve_link_open_corner(t, prev, new, horizontalFirst) ==
    LET p == center(prev)
        n == center(new)
    IN  IF horizontalFirst
        THEN carve_vertical_corridor(
                 carve_horizontal_corridor(t, p[1], n[1], p[2]), p[2], n[2], p[1])
        ELSE carve_horizontal_corridor(
                 carve_vertical_corridor(t, p[2], n[2], p[1]), p[1], n[1], p[2])
\* the L-shaped corridor from the previous room's centre to the new one's
carve_link(t, prev, new, horizontalFirst) ==
    LET p == center(prev)
        n == center(new)
    IN  IF horizontalFirst
        THEN carve_vertical_corridor(
                 carve_horizontal_corridor(t, p[1], n[1], p[2]), p[2], n[2], n[1])
        ELSE carve_horizontal_corridor(
                 carve_vertical_corridor(t, p[2], n[2], p[1]), p[1], n[1], n[2])

\* ---- place_doors: one pass per edge of a room, rooms in order ----
\* faulty variant: every corridor cell above the room becomes a door, turns and
\* junctions included
doors_top_any_corridor(t, r, w, h) ==
    [c \in DOMAIN t |->
        IF /\ r.y > 0 /\ c[2] = r.y - 1
           /\ c[1] >= r.x /\ c[1] < r.x + r.width
           /\ t[c] = "Corridor"
        THEN "Door" ELSE t[c]]
doors_top(t, r, w, h) ==
    [c \in DOMAIN t |->
        IF /\ r.y > 0 /\ c[2] = r.y - 1
           /\ c[1] >= r.x /\ c[1] < r.x + r.width
           /\ t[c] = "Corridor"
           /\ (c[1] = 0 \/ t[<<c[1] - 1, c[2]>>] = "Wall")
           /\ (c[1] + 1 >= w \/ t[<<c[1] + 1, c[2]>>] = "Wall")
        THEN "Door" ELSE t[c]]
doors_bottom(t, r, w, h) ==
    [c \in DOMAIN t |->
        IF /\ r.y + r.height < h /\ c[2] = r.y + r.height
           /\ c[1] >= r.x /\ c[1] < r.x + r.width
           /\ t[c] = "Corridor"
           /\ (c[1] = 0 \/ t[<<c[1] - 1, c[2]>>] = "Wall")
           /\ (c[1] + 1 >= w \/ t[<<c[1] + 1, c[2]>>] = "Wall")
        THEN "Door" ELSE t[c]]
doors_left(t, r, w, h) ==
    [c \in DOMAIN t |->
        IF /\ r.x > 0 /\ c[1] = r.x - 1
           /\ c[2] >= r.y /\ c[2] < r.y + r.height
           /\ t[c] = "Corridor"
           /\ (c[2] = 0 \/ t[<<c[1], c[2] - 1>>] = "Wall")
           /\ (c[2] + 1 >= h \/ t[<<c[1], c[2] + 1>>] = "Wall")
        THEN "Door" ELSE t[c]]
doors_right(t, r, w, h) ==
    [c \in DOMAIN t |->
        IF /\ r.x + r.width < w /\ c[1] = r.x + r.width
           /\ c[2] >= r.y /\ c[2] < r.y + r.height
           /\ t[c] = "Corridor"
           /\ (c[2] = 0 \/ t[<<c[1], c[2] - 1>>] = "Wall")
           /\ (c[2] + 1 >= h \/ t[<<c[1], c[2] + 1>>] = "Wall")
        THEN "Door" ELSE t[c]]
room_doors(t, r, w, h) ==
    doors_right(doors_left(doors_bottom(doors_top(t, r, w, h), r, w, h), r, w, h), r, w, h)
RECURSIVE place_doors_from(_, _, _, _, _)
place_doors_from(t, rs, k, w, h) ==
    IF k > Len(rs) THEN t
    ELSE place_doors_from(room_doors(t, rs[k], w, h), rs, k + 1, w, h)
place_doors(t, rs, w, h) == place_doors_from(t, rs, 1, w, h)

\* ---- place_potions: per room a coin, then a random cell of the room ----
\* the tile grids one room's draw can produce: no potion (coin false, or the
\* drawn cell is the centre or not Floor), or a potion at the drawn cell
potion_outcomes(t, r) ==
    {t} \cup
    { IF c # center(r) /\ t[c] = "Floor" THEN [t EXCEPT ![c] = "Potion"] ELSE t :
        c \in {d \in DOMAIN t : InRoom(d, r)} }
RECURSIVE place_potions_from(_, _, _)
place_potions_from(t, rs, k) ==
    IF k > Len(rs) THEN {t}
    ELSE UNION { place_potions_from(t2, rs, k + 1) : t2 \in potion_outcomes(t, rs[k]) }
place_potions(t, rs) == place_potions_from(t, rs, 1)

\* ---- spawn points ----
player_spawn(rs, w, h) == IF Len(rs) > 0 THEN center(rs[1]) ELSE <<w \div 2, h \div 2>>
\* faulty variant: the first room is not skipped
enemy_spawn_points_all_rooms(rs) == [k \in 1 .. Len(rs) |-> center(rs[k])]
enemy_spawn_points(rs) == [k \in 1 .. Len(rs) - 1 |-> center(rs[k + 1])]

\* ---- fog of war ----
reveal_at(rv, x, y) ==
    IF <<x, y>> \in DOMAIN rv THEN [rv EXCEPT ![<<x, y>>] = TRUE] ELSE rv
reveal_surroundings(rv, x, y) ==
    [c \in DOMAIN rv |->
        IF Abs(c[1] - x) <= 1 /\ Abs(c[2] - y) <= 1 THEN TRUE ELSE rv[c]]
\* faulty variant: writes the whole matrix, clearing every cell outside the room
reveal_room_overwrite(rv, rs, k, w, h) ==
    IF k > Len(rs) THEN rv
    ELSE LET r == rs[k]
         IN  [c \in DOMAIN rv |->
                 /\ c[1] + 1 >= r.x /\ c[1] <= r.x + r.width
                 /\ c[2] + 1 >= r.y /\ c[2] <= r.y + r.height]
\* faulty variant: the border rows and columns stop at the room's own extent, so
\* the four corner cells are left out
reveal_room_no_corners(rv, rs, k, w, h) ==
    IF k > Len(rs) THEN rv
    ELSE LET r == rs[k]
             interior(c) == InRoom(c, r)
             topBottom(c) ==
                 /\ c[1] >= r.x /\ c[1] < r.x + r.width
                 /\ c[2] + 1 = r.y \/ c[2] = r.y + r.height
             leftRight(c) ==
                 /\ c[2] >= r.y /\ c[2] < r.y + r.height
                 /\ c[1] + 1 = r.x \/ c[1] = r.x + r.width
         IN  [c \in DOMAIN rv |->
                 IF interior(c) \/ topBottom(c) \/ leftRight(c) THEN TRUE ELSE rv[c]]
\* k is the 1-based room index; k > Len(rs) is the early return
reveal_room(rv, rs, k, w, h) ==
    IF k > Len(rs) THEN rv
    ELSE LET r == rs[k]
             start_x == SaturatingSub(r.x, 1)
             end_x == Min(r.x + r.width + 1, w)
             start_y == SaturatingSub(r.y, 1)
             end_y == Min(r.y + r.height + 1, h)
             interior(c) == InRoom(c, r)
             topBottom(c) ==
                 /\ c[1] >= start_x /\ c[1] < end_x
                 /\ \/ start_y < r.y /\ c[2] = start_y
                    \/ end_y > r.y + r.height /\ end_y <= h /\ c[2] = end_y - 1
             leftRight(c) ==
                 /\ c[2] >= start_y /\ c[2] < end_y
                 /\ \/ start_x < r.x /\ c[1] = start_x
                    \/ end_x > r.x + r.width /\ end_x <= w /\ c[1] = end_x - 1
         IN  [c \in DOMAIN rv |->
                 IF interior(c) \/ topBottom(c) \/ leftRight(c) THEN TRUE ELSE rv[c]]
\* faulty variant: the potion is left on the floor
pickup_potion_left(t, x, y) == t
pickup_potion(t, x, y) ==
    IF <<x, y>> \in DOMAIN t /\ t[<<x, y>>] = "Potion"
    THEN [t EXCEPT ![<<x, y>>] = "Floor"] ELSE t

\* ---- entities ----
NewPlayer(x, y) ==
    [x |-> x, y |-> y, hp |-> PLAYER_HP, max_hp |-> PLAYER_HP, power |-> PLAYER_POWER]
goblin(x, y) ==
    [x |-> x, y |-> y, hp |-> GOBLIN_HP, max_hp |-> GOBLIN_HP, power |-> GOBLIN_POWER]
is_alive(e) == e.hp > 0
\* faulty variant: no clamp at 0
take_damage_unclamped(e, damage) == [e EXCEPT !.hp = e.hp - damage]
take_damage(e, damage) == [e EXCEPT !.hp = IF e.hp - damage < 0 THEN 0 ELSE e.hp - damage]
heal(p, amount) == [p EXCEPT !.hp = Min(p.hp + amount, p.max_hp)]
move_by(p, dx, dy) == [p EXCEPT !.x = AsUsize(p.x + dx), !.y = AsUsize(p.y + dy)]
distance_to(e, x, y) == Abs(e.x - x) + Abs(e.y - y)

\* ---- combat ----
\* faulty variant: the roll is subtracted without the floor of 1
attack_damage_no_floor(power, variance) == power - variance
attack_damage(power, variance) == Max(power - variance, 1)
player_attack(p, e, variance) == take_damage(e, attack_damage(p.power, variance))
enemy_attack(e, p, variance) == take_damage(p, attack_damage(e.power, variance))

\* ---- enemy movement ----
\* faulty variant: only the player blocks a cell
position_occupied_player_only(x, y, es, exclude_index, player_x, player_y) ==
    x = player_x /\ y = player_y
\* faulty variant: the body of a dead enemy blocks like a live one
position_occupied_with_dead(x, y, es, exclude_index, player_x, player_y) ==
    \/ x = player_x /\ y = player_y
    \/ \E i \in 1 .. Len(es) :
          i # exclude_index /\ es[i].x = x /\ es[i].y = y
\* enemies is the snapshot handed to move_toward; dead enemies do not block
position_occupied(x, y, es, exclude_index, player_x, player_y) ==
    \/ x = player_x /\ y = player_y
    \/ \E i \in 1 .. Len(es) :
          i # exclude_index /\ is_alive(es[i]) /\ es[i].x = x /\ es[i].y = y
\* faulty variant: the vertical-only step is tried before the horizontal-only one
move_toward_vertical_first(e, target_x, target_y, t, es, self_index, player_x, player_y) ==
    LET dx == Signum(target_x - e.x)
        dy == Signum(target_y - e.y)
        new_x == AsUsize(e.x + dx)
        new_y == AsUsize(e.y + dy)
        free(x, y) ==
            /\ is_walkable(t, x, y)
            /\ ~position_occupied(x, y, es, self_index, player_x, player_y)
    IN  IF free(new_x, new_y) THEN [e EXCEPT !.x = new_x, !.y = new_y]
        ELSE IF dy # 0 /\ free(e.x, new_y) THEN [e EXCEPT !.y = new_y]
        ELSE IF dx # 0 /\ free(new_x, e.y) THEN [e EXCEPT !.x = new_x]
        ELSE e
move_toward(e, target_x, target_y, t, es, self_index, player_x, player_y) ==
    LET dx == Signum(target_x - e.x)
        dy == Signum(target_y - e.y)
        new_x == AsUsize(e.x + dx)
        new_y == AsUsize(e.y + dy)
        free(x, y) ==
            /\ is_walkable(t, x, y)
            /\ ~position_occupied(x, y, es, self_index, player_x, player_y)
    IN  IF free(new_x, new_y) THEN [e EXCEPT !.x = new_x, !.y = new_y]
        ELSE IF dx # 0 /\ free(new_x, e.y) THEN [e EXCEPT !.x = new_x]
        ELSE IF dy # 0 /\ free(e.x, new_y) THEN [e EXCEPT !.y = new_y]
        ELSE e

\* ---- Game helpers ----
\* index (1-based) of the first live enemy at (x, y); 0 for None
enemy_at(es, x, y) ==
    IF \E i \in 1 .. Len(es) : is_alive(es[i]) /\ es[i].x = x /\ es[i].y = y
    THEN CHOOSE i \in 1 .. Len(es) :
            /\ is_alive(es[i]) /\ es[i].x = x /\ es[i].y = y
            /\ \A j \in 1 .. i - 1 : ~(is_alive(es[j]) /\ es[j].x = x /\ es[j].y = y)
    ELSE 0
\* faulty variant: treats dead enemies as removed from the collection
all_enemies_dead_if_none(es) == Len(es) = 0
all_enemies_dead(es) == \A i \in 1 .. Len(es) : ~is_alive(es[i])

\* faulty variant: the collision check reads the positions the enemies had when
\* the phase began instead of a clone taken at this enemy's turn
enemy_turn_stale(i, st, t, player_x, player_y, variance) ==
    LET e == st.enemies[i]
        distance == distance_to(e, player_x, player_y)
    IN  IF ~is_alive(e) THEN st
        ELSE IF distance = 1
        THEN [st EXCEPT !.player = enemy_attack(e, st.player, variance)]
        ELSE IF distance <= ChaseRange
        THEN [st EXCEPT !.enemies[i] =
                 move_toward(e, player_x, player_y, t, enemies, i, player_x, player_y)]
        ELSE st
\* faulty variant: an enemy chases the player from any distance
enemy_turn_no_range(i, st, t, player_x, player_y, variance) ==
    LET e == st.enemies[i]
        distance == distance_to(e, player_x, player_y)
    IN  IF ~is_alive(e) THEN st
        ELSE IF distance = 1
        THEN [st EXCEPT !.player = enemy_attack(e, st.player, variance)]
        ELSE [st EXCEPT !.enemies[i] =
                 move_toward(e, player_x, player_y, t, st.enemies, i, player_x, player_y)]
\* faulty variant: a dead enemy is not skipped
enemy_turn_undead(i, st, t, player_x, player_y, variance) ==
    LET e == st.enemies[i]
        distance == distance_to(e, player_x, player_y)
    IN  IF distance = 1
        THEN [st EXCEPT !.player = enemy_attack(e, st.player, variance)]
        ELSE IF distance <= ChaseRange
        THEN [st EXCEPT !.enemies[i] =
                 move_toward(e, player_x, player_y, t, st.enemies, i, player_x, player_y)]
        ELSE st
\* one iteration of the loop of enemy_turns, for the enemy of index i
enemy_turn(i, st, t, player_x, player_y, variance) ==
    LET e == st.enemies[i]
        distance == distance_to(e, player_x, player_y)
    IN  IF ~is_alive(e) THEN st
        ELSE IF distance = 1
        THEN [st EXCEPT !.player = enemy_attack(e, st.player, variance)]
        ELSE IF distance <= ChaseRange
        THEN [st EXCEPT !.enemies[i] =
                 move_toward(e, player_x, player_y, t, st.enemies, i, player_x, player_y)]
        ELSE st
\* the loop of enemy_turns over the indices order[k], order[k+1], ...
RECURSIVE enemy_loop(_, _, _, _, _, _, _)
enemy_loop(order, k, st, t, player_x, player_y, vs) ==
    IF k > Len(order) THEN st
    ELSE enemy_loop(order, k + 1,
                    enemy_turn(order[k], st, t, player_x, player_y, vs[order[k]]),
                    t, player_x, player_y, vs)
IndexOrder(n) == [i \in 1 .. n |-> i]
\* st is [player, enemies]; vs[i] is the variance roll of enemy i's attack
enemy_turns(st, t, vs) ==
    enemy_loop(IndexOrder(Len(st.enemies)), 1, st, t, st.player.x, st.player.y, vs)

\* the rooms revealed by a step onto a door at (x, y): those of its 4 neighbours
RECURSIVE reveal_adjacent(_, _, _, _, _, _, _)
reveal_adjacent(rv, rs, x, y, dirs, w, h) ==
    IF dirs = <<>> THEN rv
    ELSE LET adj_x == AsUsize(x + Head(dirs)[1])
             adj_y == AsUsize(y + Head(dirs)[2])
             room_idx == room_at(rs, adj_x, adj_y)
         IN  reveal_adjacent(
                 IF room_idx # 0 THEN reveal_room(rv, rs, room_idx, w, h) ELSE rv,
                 rs, x, y, Tail(dirs), w, h)
DoorNeighbours == << <<-1, 0>>, <<1, 0>>, <<0, -1>>, <<0, 1>> >>

\* faulty variant: a step onto a door does not reveal the rooms next to it
step_onto_no_door_reveal(st, rs, w, h, dx, dy) ==
    LET new_x == AsUsize(st.player.x + dx)
        new_y == AsUsize(st.player.y + dy)
        rv1 == reveal_at(st.revealed, new_x, new_y)
        rv2 == IF is_corridor(st.tiles, new_x, new_y)
               THEN reveal_surroundings(rv1, new_x, new_y) ELSE rv1
        potion == is_potion(st.tiles, new_x, new_y)
        p1 == move_by(st.player, dx, dy)
        p2 == IF potion THEN heal(p1, HEAL_AMOUNT) ELSE p1
        t2 == IF potion THEN pickup_potion(st.tiles, new_x, new_y) ELSE st.tiles
        room_idx == room_at(rs, new_x, new_y)
        rv4 == IF room_idx # 0 THEN reveal_room(rv2, rs, room_idx, w, h) ELSE rv2
    IN  [player |-> p2, enemies |-> st.enemies, tiles |-> t2, revealed |-> rv4]
\* the walkable branch of handle_player_move: the step onto (new_x, new_y) with
\* its reveals and the potion pickup
step_onto(st, rs, w, h, dx, dy) ==
    LET new_x == AsUsize(st.player.x + dx)
        new_y == AsUsize(st.player.y + dy)
        rv1 == reveal_at(st.revealed, new_x, new_y)
        rv2 == IF is_corridor(st.tiles, new_x, new_y)
               THEN reveal_surroundings(rv1, new_x, new_y) ELSE rv1
        potion == is_potion(st.tiles, new_x, new_y)
        p1 == move_by(st.player, dx, dy)
        p2 == IF potion THEN heal(p1, HEAL_AMOUNT) ELSE p1
        t2 == IF potion THEN pickup_potion(st.tiles, new_x, new_y) ELSE st.tiles
        rv3 == IF is_door(t2, new_x, new_y)
               THEN reveal_adjacent(rv2, rs, new_x, new_y, DoorNeighbours, w, h)
               ELSE rv2
        room_idx == room_at(rs, new_x, new_y)
        rv4 == IF room_idx # 0 THEN reveal_room(rv3, rs, room_idx, w, h) ELSE rv3
    IN  [player |-> p2, enemies |-> st.enemies, tiles |-> t2, revealed |-> rv4]

\* faulty variant: the attack does not end the resolution; the walkable test
\* follows it, so the player also steps onto the enemy's cell
handle_player_move_advance(st, rs, w, h, dx, dy, variance) ==
    LET new_x == AsUsize(st.player.x + dx)
        new_y == AsUsize(st.player.y + dy)
        enemy_idx == enemy_at(st.enemies, new_x, new_y)
        st1 == IF enemy_idx # 0
               THEN [st EXCEPT !.enemies[enemy_idx] =
                        player_attack(st.player, st.enemies[enemy_idx], variance)]
               ELSE st
    IN  IF is_walkable(st.tiles, new_x, new_y)
        THEN step_onto(st1, rs, w, h, dx, dy)
        ELSE st1
\* st is [player, enemies, tiles, revealed]; variance is the roll of player_attack
handle_player_move(st, rs, w, h, dx, dy, variance) ==
    LET new_x == AsUsize(st.player.x + dx)
        new_y == AsUsize(st.player.y + dy)
        enemy_idx == enemy_at(st.enemies, new_x, new_y)
    IN  IF enemy_idx # 0
        THEN [st EXCEPT !.enemies[enemy_idx] =
                 player_attack(st.player, st.enemies[enemy_idx], variance)]
        ELSE IF is_walkable(st.tiles, new_x, new_y)
        THEN step_onto(st, rs, w, h, dx, dy)
        ELSE st

\* ---- the arguments of Map::new and generate, one record per layout ----
Layouts ==
    { [width |-> StripWidth, height |-> StripHeight, num_rooms |-> StripRooms,
       min_room_size |-> StripRoomSize, max_room_size |-> StripRoomSize],
      [width |-> HallWidth, height |-> HallHeight, num_rooms |-> HallRooms,
       min_room_size |-> HallRoomSize, max_room_size |-> HallRoomSize] }

NoAction == [kind |-> "None", dx |-> 0, dy |-> 0]
MoveAction(dx, dy) == [kind |-> "Move", dx |-> dx, dy |-> dy]
QuitAction == [kind |-> "Quit", dx |-> 0, dy |-> 0]
\* handle_key_event: the four directional intents
Directions == { <<0, -1>>, <<0, 1>>, <<-1, 0>>, <<1, 0>> }
\* the player record before Player::new has run
Unborn == [x |-> 0, y |-> 0, hp |-> 0, max_hp |-> 0, power |-> 0]

\* the layouts of the generation study: the two above, and one with rooms of
\* several sizes, free on both axes
GenLayouts ==
    Layouts \cup
    { [width |-> GenWidth, height |-> GenHeight, num_rooms |-> GenRooms,
       min_room_size |-> GenMinRoomSize, max_room_size |-> GenMaxRoomSize] }

\* Map::new, at the head of Game::new
InitWith(ls) ==
    \E l \in ls :
        /\ width = l.width
        /\ height = l.height
        /\ tiles = [c \in (0 .. l.width - 1) \X (0 .. l.height - 1) |-> "Wall"]
        /\ revealed = [c \in (0 .. l.width - 1) \X (0 .. l.height - 1) |-> FALSE]
        /\ rooms = <<>>
        /\ params = [num_rooms |-> l.num_rooms, min_room_size |-> l.min_room_size,
                     max_room_size |-> l.max_room_size]
        /\ attempt = 0
        /\ player = Unborn
        /\ enemies = <<>>
        /\ running = TRUE
        /\ pc = "generate"
        /\ action = NoAction
        /\ outcome = "None"

GenerateLoopEnded ==
    attempt >= params.num_rooms * ATTEMPTS_PER_ROOM \/ Len(rooms) >= params.num_rooms

\* one iteration of the placement loop of Map::generate
GenerateAttempt ==
    /\ pc = "generate"
    /\ ~GenerateLoopEnded
    /\ \E room_width \in params.min_room_size .. params.max_room_size,
          room_height \in params.min_room_size .. params.max_room_size :
       \E x \in 1 .. width - room_width - 2, y \in 1 .. height - room_height - 2 :
          LET new_room == NewRoom(x, y, room_width, room_height)
              overlaps == \E k \in 1 .. Len(rooms) : intersects(new_room, rooms[k])
              carved == carve_room(tiles, new_room)
          IN  IF overlaps
              THEN UNCHANGED <<tiles, rooms>>
              ELSE /\ rooms' = Append(rooms, new_room)
                   /\ IF Len(rooms) > 0
                      THEN \E horizontalFirst \in BOOLEAN :
                              tiles' = carve_link(carved, rooms[Len(rooms)], new_room,
                                                  horizontalFirst)
                      ELSE tiles' = carved
    /\ attempt' = attempt + 1
    /\ UNCHANGED <<width, height, revealed, params, player, enemies, running, pc,
                   action, outcome>>

\* the tail of Map::generate (place_doors, place_potions) and the rest of Game::new
GenerateFinish ==
    /\ pc = "generate"
    /\ GenerateLoopEnded
    /\ tiles' \in place_potions(place_doors(tiles, rooms, width, height), rooms)
    /\ LET spawn == player_spawn(rooms, width, height)
           points == enemy_spawn_points(rooms)
       IN  /\ player' = NewPlayer(spawn[1], spawn[2])
           /\ enemies' = [k \in 1 .. Len(points) |-> goblin(points[k][1], points[k][2])]
    /\ revealed' = reveal_room(revealed, rooms, 1, width, height)
    /\ attempt' = 0
    /\ pc' = "await_input"
    /\ UNCHANGED <<width, height, rooms, params, running, action, outcome>>

\* faulty variant: the Quit arm falls through to the turn's state check
QuitThroughCheck ==
    /\ pc = "await_input" /\ running
    /\ action' = QuitAction
    /\ running' = FALSE
    /\ pc' = "state_check"
    /\ UNCHANGED <<width, height, tiles, rooms, revealed, params, attempt, player,
                   enemies, outcome>>
\* Game::run, Action::Quit; control returns to the loop head
Quit ==
    /\ pc = "await_input" /\ running
    /\ action' = QuitAction
    /\ running' = FALSE
    /\ UNCHANGED <<width, height, tiles, rooms, revealed, params, attempt, player,
                   enemies, pc, outcome>>

\* faulty variant: an intent that is no direction still passes the turn to the
\* enemies
NoOpAdvances ==
    /\ pc = "await_input" /\ running
    /\ action' = NoAction
    /\ pc' = "enemy_phase"
    /\ UNCHANGED <<width, height, tiles, rooms, revealed, params, attempt, player,
                   enemies, running, outcome>>
\* Game::run, Action::None; control returns to the loop head
NoOp ==
    /\ pc = "await_input" /\ running
    /\ action' = NoAction
    /\ UNCHANGED <<width, height, tiles, rooms, revealed, params, attempt, player,
                   enemies, running, pc, outcome>>

\* the rolls rng.gen_range(0..=3) of player_attack can return; no roll is drawn
\* (the model fixes 0) when the step of direction d attacks nobody
PlayerRolls(d) ==
    IF enemy_at(enemies, AsUsize(player.x + d[1]), AsUsize(player.y + d[2])) # 0
    THEN 0 .. PLAYER_VARIANCE ELSE {0}
\* the rolls rng.gen_range(0..=2) of enemy_attack, one per enemy; no roll is
\* drawn (the model fixes 0) for an enemy that does not attack in this phase
EnemyRolls ==
    { vs \in [1 .. Len(enemies) -> 0 .. ENEMY_VARIANCE] :
        \A i \in 1 .. Len(enemies) :
            ~(is_alive(enemies[i]) /\ distance_to(enemies[i], player.x, player.y) = 1)
                => vs[i] = 0 }

\* faulty variant: the turn goes from player resolution straight to the state
\* check, without the enemy phase
PlayerMoveSkipEnemies ==
    /\ pc = "await_input" /\ running
    /\ \E d \in Directions : \E variance \in PlayerRolls(d) :
          LET st == [player |-> player, enemies |-> enemies, tiles |-> tiles,
                     revealed |-> revealed]
              res == handle_player_move(st, rooms, width, height, d[1], d[2], variance)
          IN  /\ action' = MoveAction(d[1], d[2])
              /\ player' = res.player
              /\ enemies' = res.enemies
              /\ tiles' = res.tiles
              /\ revealed' = res.revealed
              /\ pc' = "state_check"
    /\ UNCHANGED <<width, height, rooms, params, attempt, running, outcome>>
\* Game::run, Action::Move: handle_player_move, then the is_alive test
PlayerMove ==
    /\ pc = "await_input" /\ running
    /\ \E d \in Directions : \E variance \in PlayerRolls(d) :
          LET st == [player |-> player, enemies |-> enemies, tiles |-> tiles,
                     revealed |-> revealed]
              res == handle_player_move(st, rooms, width, height, d[1], d[2], variance)
          IN  /\ action' = MoveAction(d[1], d[2])
              /\ player' = res.player
              /\ enemies' = res.enemies
              /\ tiles' = res.tiles
              /\ revealed' = res.revealed
              /\ pc' = IF is_alive(res.player) THEN "enemy_phase" ELSE "state_check"
    /\ UNCHANGED <<width, height, rooms, params, attempt, running, outcome>>

\* Game::run: self.enemy_turns()
EnemyTurns ==
    /\ pc = "enemy_phase"
    /\ \E vs \in EnemyRolls :
          LET res == enemy_turns([player |-> player, enemies |-> enemies], tiles, vs)
          IN  /\ player' = res.player
              /\ enemies' = res.enemies
    /\ pc' = "state_check"
    /\ UNCHANGED <<width, height, tiles, rooms, revealed, params, attempt, running,
                   action, outcome>>

\* faulty variant: the game-over branch shows the screen but leaves running set
CheckGameStateNoStop ==
    /\ pc = "state_check"
    /\ IF ~is_alive(player)
       THEN outcome' = "GameOver" /\ UNCHANGED running
       ELSE IF all_enemies_dead(enemies)
       THEN outcome' = "Victory" /\ running' = FALSE
       ELSE UNCHANGED <<outcome, running>>
    /\ pc' = "await_input"
    /\ action' = NoAction
    /\ UNCHANGED <<width, height, tiles, rooms, revealed, params, attempt, player,
                   enemies>>
\* Game::run: self.check_game_state(), then the end of the loop body; control
\* returns to the loop head
CheckGameState ==
    /\ pc = "state_check"
    /\ IF ~is_alive(player)
       THEN outcome' = "GameOver" /\ running' = FALSE
       ELSE IF all_enemies_dead(enemies)
       THEN outcome' = "Victory" /\ running' = FALSE
       ELSE UNCHANGED <<outcome, running>>
    /\ pc' = "await_input"
    /\ action' = NoAction
    /\ UNCHANGED <<width, height, tiles, rooms, revealed, params, attempt, player,
                   enemies>>

\* Game::run: `while self.running` fails; cleanup and return
RunExit ==
    /\ pc = "await_input" /\ ~running
    /\ pc' = "exit"
    /\ UNCHANGED <<width, height, tiles, rooms, revealed, params, attempt, player,
                   enemies, running, action, outcome>>

Next ==
    \/ GenerateAttempt
    \/ GenerateFinish
    \/ Quit
    \/ NoOp
    \/ PlayerMove
    \/ EnemyTurns
    \/ CheckGameState
    \/ RunExit

Init == InitWith(Layouts)
Spec == Init /\ [][Next]_vars

\* Game::new alone, on every layout
InitGen == InitWith(GenLayouts)
NextGen ==
    \/ GenerateAttempt
    \/ GenerateFinish
GenSpec == InitGen /\ [][NextGen]_vars

\* ---- player_attack and enemy_attack alone, on drawn hp and power ----
\* a player and one enemy with any hp and power up to the bounds, on a one-cell
\* map; attacks alternate, as in a turn in which both strike
InitCombat ==
    /\ width = 1 /\ height = 1
    /\ tiles = [c \in {<<0, 0>>} |-> "Floor"]
    /\ revealed = [c \in {<<0, 0>>} |-> TRUE]
    /\ rooms = <<>>
    /\ params = [num_rooms |-> 0, min_room_size |-> 0, max_room_size |-> 0]
    /\ attempt = 0
    /\ \E hp \in 1 .. CombatMaxHp, power \in 0 .. CombatMaxPower :
          player = [x |-> 0, y |-> 0, hp |-> hp, max_hp |-> CombatMaxHp, power |-> power]
    /\ \E hp \in 1 .. CombatMaxHp, power \in 0 .. CombatMaxPower :
          enemies = << [x |-> 0, y |-> 0, hp |-> hp, max_hp |-> CombatMaxHp,
                        power |-> power] >>
    /\ running = TRUE
    /\ pc = "await_input"
    /\ action = NoAction
    /\ outcome = "None"
\* combat::player_attack on the enemy
PlayerAttack ==
    /\ pc = "await_input"
    /\ \E variance \in 0 .. PLAYER_VARIANCE :
          enemies' = [enemies EXCEPT ![1] = player_attack(player, enemies[1], variance)]
    /\ pc' = "enemy_phase"
    /\ UNCHANGED <<width, height, tiles, rooms, revealed, params, attempt, player,
                   running, action, outcome>>
\* combat::enemy_attack on the player
EnemyAttack ==
    /\ pc = "enemy_phase"
    /\ \E variance \in 0 .. ENEMY_VARIANCE :
          player' = enemy_attack(enemies[1], player, variance)
    /\ pc' = "await_input"
    /\ UNCHANGED <<width, height, tiles, rooms, revealed, params, attempt, enemies,
                   running, action, outcome>>
NextCombat ==
    \/ PlayerAttack
    \/ EnemyAttack
CombatSpec == InitCombat /\ [][NextCombat]_vars

\* ---- handle_player_move alone, on drawn grids ----
\* any grid of Wall and Floor cells, the player on any Floor cell (the border
\* rows and columns included) and a goblin on another
InitStep ==
    /\ width = StepWidth /\ height = StepHeight
    /\ tiles \in [(0 .. StepWidth - 1) \X (0 .. StepHeight - 1) -> {"Wall", "Floor"}]
    /\ revealed = [c \in (0 .. StepWidth - 1) \X (0 .. StepHeight - 1) |-> FALSE]
    /\ rooms = <<>>
    /\ params = [num_rooms |-> 0, min_room_size |-> 0, max_room_size |-> 0]
    /\ attempt = 0
    /\ \E p, e \in (0 .. StepWidth - 1) \X (0 .. StepHeight - 1) :
          /\ p # e /\ tiles[p] = "Floor" /\ tiles[e] = "Floor"
          /\ player = NewPlayer(p[1], p[2])
          /\ enemies = << goblin(e[1], e[2]) >>
    /\ running = TRUE
    /\ pc = "await_input"
    /\ action = NoAction
    /\ outcome = "None"
\* Game::handle_player_move(dx, dy) for a directional intent
HandlePlayerMove ==
    /\ pc = "await_input"
    /\ \E d \in Directions : \E variance \in PlayerRolls(d) :
          LET st == [player |-> player, enemies |-> enemies, tiles |-> tiles,
                     revealed |-> revealed]
              res == handle_player_move(st, rooms, width, height, d[1], d[2], variance)
          IN  /\ action' = MoveAction(d[1], d[2])
              /\ player' = res.player
              /\ enemies' = res.enemies
              /\ tiles' = res.tiles
              /\ revealed' = res.revealed
    /\ UNCHANGED <<width, height, rooms, params, attempt, running, pc, outcome>>
NextStep ==
    \/ HandlePlayerMove
StepSpec == InitStep /\ [][NextStep]_vars

\* ---- reveal_room alone, on drawn rooms ----
\* up to two rooms anywhere inside the grid, its border rows and columns
\* included, and nothing revealed; attempt is the room index of the next call
RevealRooms ==
    { NewRoom(x, y, w, h) :
        x \in 0 .. RevealWidth - 1, y \in 0 .. RevealHeight - 1,
        w \in 1 .. RevealWidth, h \in 1 .. RevealHeight }
InitReveal ==
    /\ width = RevealWidth /\ height = RevealHeight
    /\ tiles = [c \in (0 .. RevealWidth - 1) \X (0 .. RevealHeight - 1) |-> "Wall"]
    /\ revealed = [c \in (0 .. RevealWidth - 1) \X (0 .. RevealHeight - 1) |-> FALSE]
    /\ \E n \in 0 .. 2 :
          /\ rooms \in [1 .. n -> RevealRooms]
          /\ \A k \in 1 .. n :
                /\ rooms[k].x + rooms[k].width <= RevealWidth
                /\ rooms[k].y + rooms[k].height <= RevealHeight
    /\ params = [num_rooms |-> 0, min_room_size |-> 0, max_room_size |-> 0]
    /\ attempt = 0
    /\ player = Unborn
    /\ enemies = <<>>
    /\ running = TRUE
    /\ pc = "await_input"
    /\ action = NoAction
    /\ outcome = "None"
\* Map::reveal_room(attempt), for every index up to the first invalid one
RevealRoom ==
    /\ pc = "await_input"
    /\ attempt <= Len(rooms)
    /\ revealed' = reveal_room(revealed, rooms, attempt + 1, width, height)
    /\ attempt' = attempt + 1
    /\ UNCHANGED <<width, height, tiles, rooms, params, player, enemies, running,
                   pc, action, outcome>>
NextReveal ==
    \/ RevealRoom
RevealSpec == InitReveal /\ [][NextReveal]_vars

TypeOK ==
    /\ pc \in {"generate", "await_input", "enemy_phase", "state_check", "exit"}
    /\ outcome \in {"None", "GameOver", "Victory"}
    /\ running \in BOOLEAN
    /\ \A c \in Cells : tiles[c] \in Tile /\ revealed[c] \in BOOLEAN

\* ======================= properties =======================
Born == pc # "generate"
\* the room's rectangle grown by one cell on every side
InHalo(c, r) ==
    /\ c[1] + 1 >= r.x /\ c[1] <= r.x + r.width
    /\ c[2] + 1 >= r.y /\ c[2] <= r.y + r.height
LiveEnemies == {i \in 1 .. Len(enemies) : enemies[i].hp > 0}

\* C1: fog of war is monotonic: in every step of the program (generation, player
\* move with its reveals and potion pickup, enemy phase, state check, quit) a
\* cell that is revealed before the step is revealed after it.
C1_FogMonotonic ==
    [][\A c \in Cells : is_revealed(revealed, c[1], c[2])
                          => is_revealed(revealed', c[1], c[2])]_vars
\* a second room was revealed during play, on top of the start room's cells
C1_Witness ==
    /\ Born /\ Len(rooms) >= 2
    /\ \A c \in Cells : InHalo(c, rooms[1]) => revealed[c]
    /\ \E c \in Cells : InRoom(c, rooms[2]) /\ revealed[c] /\ ~InHalo(c, rooms[1])

\* C2: the player and every enemy always satisfy 0 <= hp <= max_hp.
C2_HpInRange ==
    /\ 0 <= player.hp /\ player.hp <= player.max_hp
    /\ \A i \in 1 .. Len(enemies) :
          0 <= enemies[i].hp /\ enemies[i].hp <= enemies[i].max_hp
\* the player was brought to 0 by an enemy phase in which two live enemies stood
\* next to the player
C2_Witness ==
    /\ pc = "state_check" /\ player.hp = 0
    /\ Cardinality({i \in LiveEnemies :
                      Abs(enemies[i].x - player.x) + Abs(enemies[i].y - player.y) = 1}) >= 2

\* C3: a directional step whose destination holds a live enemy leaves the
\* player's position (and hp), the tiles and the revealed flags unchanged and
\* resolves exactly one attack, on the first live enemy of that cell: that
\* enemy loses max(1, power - v) hp for a roll v in 0..3, floored at 0, and no
\* other enemy changes.  A step whose destination holds no live enemy changes
\* no enemy.
C3_Target == <<AsUsize(player.x + action'.dx), AsUsize(player.y + action'.dy)>>
C3_Victims == {i \in LiveEnemies : <<enemies[i].x, enemies[i].y>> = C3_Target}
C3_AttackXorMove ==
    [][(pc = "await_input" /\ action'.kind = "Move") =>
          IF C3_Victims # {}
          THEN LET i == CHOOSE k \in C3_Victims : \A j \in C3_Victims : k <= j
               IN  /\ player' = player
                   /\ tiles' = tiles
                   /\ revealed' = revealed
                   /\ \E v \in 0 .. PLAYER_VARIANCE :
                         enemies' = [enemies EXCEPT ![i].hp =
                                        Max(0, @ - Max(1, player.power - v))]
          ELSE enemies' = enemies]_vars
\* the player has just struck the enemy in the cell of the step, and stands still
C3_Witness ==
    /\ pc = "enemy_phase" /\ action.kind = "Move"
    /\ \E i \in 1 .. Len(enemies) :
          /\ enemies[i].x = player.x + action.dx
          /\ enemies[i].y = player.y + action.dy
          /\ enemies[i].hp = 0

\* C4: at the end of every enemy phase and at every turn boundary no two live
\* enemies share a cell and no live enemy is on the player's cell.
C4_NoOverlap ==
    pc \in {"state_check", "await_input", "exit"} =>
        /\ \A i, j \in LiveEnemies :
              i # j => <<enemies[i].x, enemies[i].y>> # <<enemies[j].x, enemies[j].y>>
        /\ \A i \in LiveEnemies : <<enemies[i].x, enemies[i].y>> # <<player.x, player.y>>
\* an enemy phase has ended with two live enemies side by side, both having left
\* their spawn cells
C4_Witness ==
    /\ pc = "state_check"
    /\ \E i, j \in LiveEnemies :
          /\ i # j
          /\ Abs(enemies[i].x - enemies[j].x) + Abs(enemies[i].y - enemies[j].y) = 1
          /\ <<enemies[i].x, enemies[i].y>> # center(rooms[i + 1])
          /\ <<enemies[j].x, enemies[j].y>> # center(rooms[j + 1])

\* C5 (as stated): in an enemy phase every enemy's collision check reads one
\* snapshot of the positions taken before the phase began, so each enemy ends
\* where it would end if it acted alone on the pre-phase state, and processing
\* the enemies in any permutation of the index order gives the same positions.
C5_Permutations ==
    {o \in [1 .. Len(enemies) -> 1 .. Len(enemies)] :
        \A a, b \in 1 .. Len(enemies) : a # b => o[a] # o[b]}
C5_NoRolls == [i \in 1 .. Len(enemies) |-> 0]
C5_Start == [player |-> player, enemies |-> enemies]
C5_PhaseIn(order) ==
    enemy_loop(order, 1, C5_Start, tiles, player.x, player.y, C5_NoRolls).enemies
C5_Alone(i) ==
    enemy_turn(i, C5_Start, tiles, player.x, player.y, 0).enemies[i]
C5_SnapshotAt(i) ==
    [j \in 1 .. Len(enemies) |-> IF j < i THEN enemies'[j] ELSE enemies[j]]
C6_Grown(r) == [x |-> r.x - 1, y |-> r.y - 1, width |-> r.width + 2, height |-> r.height + 2]
C6_Overlap(a, b) ==
    /\ a.x < b.x + b.width /\ b.x < a.x + a.width
    /\ a.y < b.y + b.height /\ b.y < a.y + a.height
\* C6 (as stated): for every two distinct accepted rooms, the bounding boxes,
\* each grown by a 1-tile margin, do not overlap.
C6_BothGrownDisjoint ==
    \A i, j \in 1 .. Len(rooms) :
        i # j => ~C6_Overlap(C6_Grown(rooms[i]), C6_Grown(rooms[j]))
\* C6 (amended): for every two distinct accepted rooms, the bounding box of one
\* grown by a 1-tile margin does not overlap the bounding box of the other (not
\* grown): at least one row or column of cells lies between the two rooms.
C6_OneGrownDisjoint ==
    \A i, j \in 1 .. Len(rooms) :
        i # j => ~C6_Overlap(C6_Grown(rooms[i]), rooms[j])
\* a finished dungeon of three rooms, two of them one column or row apart
C6_Witness ==
    /\ Born /\ Len(rooms) = 3
    /\ \E i, j \in 1 .. Len(rooms) :
          i # j /\ C6_Overlap(C6_Grown(rooms[i]), C6_Grown(rooms[j]))

\* the cells reached from the cells of S along orthogonally adjacent non-Wall tiles
RECURSIVE C7_Flood(_)
C7_Flood(S) ==
    LET N == S \cup {c \in Cells :
                       /\ tiles[c] # "Wall"
                       /\ \E d \in S : Abs(c[1] - d[1]) + Abs(c[2] - d[2]) = 1}
    IN  IF N = S THEN S ELSE C7_Flood(N)
C7_RoomCells(r) == {c \in Cells : InRoom(c, r)}
\* C7: in every finished dungeon (rooms, corridors, doors and potions placed)
\* every cell of every accepted room is reached from the first accepted room
\* along orthogonally adjacent non-Wall tiles.
C7_Connected ==
    (Born /\ Len(rooms) > 0) =>
        \A k \in 1 .. Len(rooms) :
            C7_RoomCells(rooms[k]) \subseteq C7_Flood(C7_RoomCells(rooms[1]))
\* a finished dungeon of three rooms whose centres differ pairwise on both axes,
\* with doors and a potion placed
C7_Witness ==
    /\ Born /\ Len(rooms) = 3
    /\ \A i, j \in 1 .. 3 :
          i # j => center(rooms[i])[1] # center(rooms[j])[1]
                   /\ center(rooms[i])[2] # center(rooms[j])[2]
    /\ \E c \in Cells : tiles[c] = "Door"
    /\ \E c \in Cells : tiles[c] = "Potion"

\* what a stopped game may still do: leave the loop, changing nothing else
Halted ==
    /\ pc' = "exit"
    /\ UNCHANGED <<width, height, tiles, rooms, revealed, params, attempt, player,
                   enemies, running, action, outcome>>
NextToPlayer ==
    {i \in LiveEnemies : Abs(enemies[i].x - player.x) + Abs(enemies[i].y - player.y) = 1}

\* C8: when the state check runs with the player's hp at 0 it signals GameOver
\* and stops the game; a stopped game processes no further intent, player
\* resolution or enemy phase; and an enemy phase that starts with the player at
\* hp 1 and a live enemy at Manhattan distance 1 ends with the player at hp 0,
\* followed by that state check.
C8_GameOver ==
    [][/\ (pc = "state_check" /\ player.hp = 0) =>
              outcome' = "GameOver" /\ running' = FALSE /\ pc' = "await_input"
       /\ (Born /\ ~running) => Halted
       /\ (pc = "enemy_phase" /\ player.hp = 1 /\ NextToPlayer # {}) =>
              player'.hp = 0 /\ pc' = "state_check"]_vars
\* the game has ended in GameOver
C8_Witness ==
    pc = "exit" /\ outcome = "GameOver" /\ player.hp = 0 /\ ~running
\* the enemy phase of the scenario: hp 1 and a live enemy next to the player
C8_Scenario ==
    pc = "enemy_phase" /\ player.hp = 1 /\ NextToPlayer # {}

\* C9: when a player attack kills the last live enemy (every enemy's hp is then
\* 0), the turn goes on to an enemy phase that changes nothing and to a state
\* check that signals Victory and stops the game; a stopped game processes no
\* further turn.
C9_Victory ==
    [][/\ (pc = "await_input" /\ LiveEnemies # {} /\ LiveEnemies' = {}) =>
              player' = player /\ player.hp > 0 /\ pc' = "enemy_phase"
       /\ (pc = "enemy_phase" /\ LiveEnemies = {}) =>
              player' = player /\ enemies' = enemies /\ pc' = "state_check"
       /\ (pc = "state_check" /\ LiveEnemies = {} /\ player.hp > 0) =>
              outcome' = "Victory" /\ running' = FALSE /\ pc' = "await_input"
       /\ (Born /\ ~running) => Halted]_vars
\* the game has ended in Victory after the player killed two enemies
C9_Witness ==
    /\ pc = "exit" /\ outcome = "Victory" /\ ~running
    /\ Len(enemies) >= 2 /\ LiveEnemies = {}

\* C10: a Quit intent stops the game at once: it changes neither the player, the
\* enemies, the grid nor the revealed flags, signals no outcome, and the only
\* step that follows leaves the loop: no player resolution, enemy phase or state
\* check runs.
C10_Quit ==
    [][/\ (pc = "await_input" /\ running /\ action'.kind = "Quit") =>
              /\ running' = FALSE /\ pc' = "await_input"
              /\ outcome = "None" /\ outcome' = "None"
              /\ UNCHANGED <<player, enemies, tiles, rooms, revealed>>
       /\ (pc = "await_input" /\ action.kind = "Quit") => Halted]_vars
\* the game was left by Quit in mid-game: the player is wounded, an enemy is alive
C10_Witness ==
    /\ pc = "exit" /\ action.kind = "Quit" /\ outcome = "None"
    /\ player.hp < player.max_hp /\ LiveEnemies # {}

\* C11: within a turn triggered by a directional intent the phases run in the
\* order player resolution, enemy phase, state check, each at most once: the
\* resolution is followed by the enemy phase if the player is alive and by the
\* state check otherwise, the enemy phase only by the state check of the same
\* turn, the state check only by the next wait for an intent.  In the enemy
\* phase an enemy whose hp is 0 (so one the player has just killed) does not
\* move, and the player is untouched unless a live enemy stands next to it.
C11_PhaseOrder ==
    [][/\ (pc = "await_input" /\ action'.kind = "Move") =>
              pc' = IF player'.hp > 0 THEN "enemy_phase" ELSE "state_check"
       /\ pc = "enemy_phase" =>
              /\ pc' = "state_check"
              /\ action.kind = "Move" /\ action' = action
              /\ \A i \in 1 .. Len(enemies) :
                    enemies[i].hp = 0 => enemies'[i] = enemies[i]
              /\ NextToPlayer = {} => player' = player
       /\ pc = "state_check" =>
              pc' = "await_input" /\ player' = player /\ enemies' = enemies
       /\ pc' = "enemy_phase" => pc = "await_input"
       /\ pc' = "state_check" => pc \in {"await_input", "enemy_phase"}]_vars
\* the enemy phase is about to run in the turn in which the player killed the
\* enemy of the cell it stepped at, with another enemy still alive
C11_Witness ==
    /\ pc = "enemy_phase" /\ action.kind = "Move"
    /\ LiveEnemies # {} /\ NextToPlayer = {}
    /\ \E i \in 1 .. Len(enemies) :
          /\ enemies[i].hp = 0
          /\ <<enemies[i].x, enemies[i].y>> =
                <<player.x + action.dx, player.y + action.dy>>

\* the sum of f over the finite set S
RECURSIVE C12_Sum(_, _)
C12_Sum(f, S) ==
    IF S = {} THEN 0
    ELSE LET i == CHOOSE k \in S : TRUE IN f[i] + C12_Sum(f, S \ {i})
\* the enemy positions read by enemy i's collision check, with every dead enemy
\* taken off the grid
C12_LivingAt(i) ==
    [j \in 1 .. Len(enemies) |->
        LET e == IF j < i THEN enemies'[j] ELSE enemies[j]
        IN  IF e.hp = 0 THEN [e EXCEPT !.x = width, !.y = height] ELSE e]
\* C12: during play the enemy collection keeps its length, and an enemy whose hp
\* is 0 takes part in nothing: no step changes it (it does not move, it is not
\* the target of a player attack, its hp stays 0); the damage of an enemy phase
\* is that of the live enemies next to the player, one attack each; the player
\* steps onto a walkable cell that holds no live enemy, whether or not a dead
\* one lies there; and every enemy moves as if the dead ones were not on the
\* grid.
C12_DeadInert ==
    [][Born =>
          /\ Len(enemies') = Len(enemies)
          /\ \A i \in 1 .. Len(enemies) :
                enemies[i].hp = 0 => enemies'[i] = enemies[i]
          /\ pc = "enemy_phase" =>
                /\ \E vs \in [NextToPlayer -> 0 .. ENEMY_VARIANCE] :
                      LET hit == [i \in NextToPlayer |->
                                     Max(1, enemies[i].power - vs[i])]
                      IN  player' = [player EXCEPT !.hp =
                                        Max(0, @ - C12_Sum(hit, NextToPlayer))]
                /\ \A i \in 1 .. Len(enemies) :
                      LET e == enemies[i]
                          d == Abs(e.x - player.x) + Abs(e.y - player.y)
                      IN  enemies'[i] =
                              IF e.hp > 0 /\ d >= 2 /\ d <= ChaseRange
                              THEN move_toward(e, player.x, player.y, tiles,
                                               C12_LivingAt(i), i, player.x, player.y)
                              ELSE e
          /\ (/\ pc = "await_input" /\ action'.kind = "Move"
              /\ C3_Victims = {}
              /\ is_walkable(tiles, C3_Target[1], C3_Target[2])) =>
                <<player'.x, player'.y>> = C3_Target]_vars
\* a live enemy has walked onto the cell of a dead one and stands next to the
\* player, whose next step can strike it
C12_Witness ==
    /\ pc = "await_input" /\ running
    /\ \E i, j \in 1 .. Len(enemies) :
          /\ enemies[i].hp = 0 /\ enemies[j].hp > 0
          /\ <<enemies[i].x, enemies[i].y>> = <<enemies[j].x, enemies[j].y>>
          /\ j \in NextToPlayer

\* C13: in every state of the game (from the spawn positions on, after any
\* player steps and enemy moves) the player's cell and the cell of every live
\* enemy are inside the grid and their tile is walkable (not Wall).
C13_OnWalkable ==
    Born =>
        /\ <<player.x, player.y>> \in Cells
        /\ TileIsWalkable(tiles[<<player.x, player.y>>])
        /\ \A i \in LiveEnemies :
              /\ <<enemies[i].x, enemies[i].y>> \in Cells
              /\ TileIsWalkable(tiles[<<enemies[i].x, enemies[i].y>>])
\* the player and a live enemy have both left their rooms and stand in corridors
\* or doorways
C13_Witness ==
    /\ pc = "await_input"
    /\ get_tile(tiles, player.x, player.y) \in {"Corridor", "Door"}
    /\ \E i \in LiveEnemies :
          get_tile(tiles, enemies[i].x, enemies[i].y) \in {"Corridor", "Door"}

\* C14: every resolved attack deals max(1, attacker power - v) damage, v in
\* 0..3 for a player attack and 0..2 for an enemy attack: the defender's hp
\* becomes max(0, hp - damage), so a defender with hp left loses at least 1 hp,
\* and never more than the attacker's power when that power is at least 1; the
\* attacker is unchanged.
C14_Hit(attacker, defender, after, rolls) ==
    /\ \E v \in rolls :
          after = [defender EXCEPT !.hp = Max(0, @ - Max(1, attacker.power - v))]
    /\ defender.hp > 0 => after.hp < defender.hp
    /\ attacker.power >= 1 => defender.hp - after.hp <= attacker.power
C14_Damage ==
    [][/\ pc = "await_input" =>
              /\ C14_Hit(player, enemies[1], enemies'[1], 0 .. PLAYER_VARIANCE)
              /\ player' = player
       /\ pc = "enemy_phase" =>
              /\ C14_Hit(enemies[1], player, player', 0 .. ENEMY_VARIANCE)
              /\ enemies' = enemies]_vars
\* after one exchange: the enemy, of power 0, has dealt exactly 1 damage to a
\* player at full hp, and the player's single blow has brought the enemy to 0
C14_Witness ==
    /\ pc = "await_input"
    /\ enemies[1].power = 0 /\ player.hp = CombatMaxHp - 1
    /\ player.power > 1 /\ enemies[1].hp = 0

\* C15: at game start the player is at the centre of the first accepted room,
\* there is one enemy per further accepted room, the k-th enemy at the centre of
\* the (k+1)-th room, and the positions of the player and the enemies are
\* pairwise distinct.
C15_Positions == <<<<player.x, player.y>>>> \o [k \in 1 .. Len(enemies) |->
                                                 <<enemies[k].x, enemies[k].y>>]
C15_Spawn ==
    Born =>
        /\ Len(rooms) >= 1
        /\ <<player.x, player.y>> = center(rooms[1])
        /\ Len(enemies) = Len(rooms) - 1
        /\ \A k \in 1 .. Len(enemies) :
              <<enemies[k].x, enemies[k].y>> = center(rooms[k + 1])
        /\ \A a, b \in 1 .. Len(C15_Positions) :
              a # b => C15_Positions[a] # C15_Positions[b]
\* a game has started in a dungeon of three rooms, with two enemies, one of
\* them in a room two cells wide whose centre is not its corner
C15_Witness ==
    /\ Born /\ Len(rooms) = 3 /\ Len(enemies) = 2
    /\ \E k \in 1 .. 2 :
          /\ rooms[k + 1].width = 2
          /\ enemies[k].x = rooms[k + 1].x + 1

\* a cell that is Wall in t, or lies outside the grid
C16_WallOrOut(t, x, y) == <<x, y>> \notin DOMAIN t \/ t[<<x, y>>] = "Wall"
\* c lies immediately outside the top or bottom edge of room r
C16_AboveOrBelow(c, r) ==
    /\ c[1] >= r.x /\ c[1] < r.x + r.width
    /\ c[2] + 1 = r.y \/ c[2] = r.y + r.height
\* c lies immediately outside the left or right edge of room r
C16_LeftOrRight(c, r) ==
    /\ c[2] >= r.y /\ c[2] < r.y + r.height
    /\ c[1] + 1 = r.x \/ c[1] = r.x + r.width
\* in grid t, c is a corridor cell outside an edge of some room, with a wall (or
\* the border of the grid) on both sides along that edge
C16_Doorway(t, c) ==
    /\ t[c] = "Corridor"
    /\ \E k \in 1 .. Len(rooms) :
          \/ /\ C16_AboveOrBelow(c, rooms[k])
             /\ C16_WallOrOut(t, c[1] - 1, c[2]) /\ C16_WallOrOut(t, c[1] + 1, c[2])
          \/ /\ C16_LeftOrRight(c, rooms[k])
             /\ C16_WallOrOut(t, c[1], c[2] - 1) /\ C16_WallOrOut(t, c[1], c[2] + 1)
\* two rooms whose centres share a row or a column: the corridor is straight
C16_Straight ==
    /\ Len(rooms) = 2
    /\ \/ center(rooms[1])[1] = center(rooms[2])[1]
       \/ center(rooms[1])[2] = center(rooms[2])[2]
\* C16: place_doors turns a cell into a Door if and only if the cell lies
\* immediately outside an edge of an accepted room, is Corridor, and both of its
\* neighbours along the edge are Wall (or outside the grid); no other tile
\* changes but for the potions, so a cell that was not Corridor never becomes a
\* Door.  For two rooms joined by a straight corridor the doors are exactly the
\* corridor cells next to a room, and the corridor cells in between stay
\* Corridor.
C16_Doors ==
    [][(pc = "generate" /\ pc' = "await_input") =>
          /\ \A c \in Cells : tiles'[c] = "Door" <=> C16_Doorway(tiles, c)
          /\ \A c \in Cells : tiles[c] # "Door"
          /\ \A c \in Cells :
                tiles'[c] # tiles[c] =>
                    \/ tiles[c] = "Corridor" /\ tiles'[c] = "Door"
                    \/ tiles[c] = "Floor" /\ tiles'[c] = "Potion"
          /\ C16_Straight =>
                \A c \in Cells :
                    tiles[c] = "Corridor" =>
                        tiles'[c] =
                            IF \E k \in 1 .. 2 :
                                  \/ C16_AboveOrBelow(c, rooms[k])
                                  \/ C16_LeftOrRight(c, rooms[k])
                            THEN "Door" ELSE "Corridor"]_vars
\* the scenario: two rooms joined by a straight corridor of three cells or more
C16_Scenario ==
    /\ Born /\ C16_Straight
    /\ Cardinality({c \in Cells : tiles[c] = "Door"}) = 2
    /\ \E c \in Cells : tiles[c] = "Corridor"
\* a finished dungeon of three rooms with a door, and with a corridor cell
\* outside a room's edge that stayed Corridor because the corridor turns or
\* branches there
C16_Witness ==
    /\ Born /\ Len(rooms) = 3
    /\ \E c \in Cells : tiles[c] = "Door"
    /\ \E c \in Cells, k \in 1 .. Len(rooms) :
          /\ tiles[c] = "Corridor"
          /\ C16_AboveOrBelow(c, rooms[k]) \/ C16_LeftOrRight(c, rooms[k])

\* C17: a directional step whose destination holds no live enemy and is not
\* walkable (a Wall cell, or a coordinate outside the grid, a step left or up
\* from coordinate 0 included) changes nothing but the recorded intent: the
\* player's position and hp, the enemies, every tile and every revealed flag
\* stay as they are.
C17_Blocked ==
    /\ C3_Victims = {}
    /\ C3_Target \notin Cells \/ tiles[C3_Target] = "Wall"
C17_BlockedNoOp ==
    [][(pc = "await_input" /\ action'.kind = "Move" /\ C17_Blocked) =>
          UNCHANGED <<player, enemies, tiles, revealed, rooms, running, outcome>>]_vars
\* the player stands in column 0 after a step to the left that cannot have come
\* from column 1, which is Wall: the step was made from coordinate 0
C17_Witness ==
    /\ action = MoveAction(-1, 0)
    /\ player.x = 0 /\ tiles[<<1, player.y>>] = "Wall"

\* Manhattan distance of enemy i to the player
C18_Distance(i) == Abs(enemies[i].x - player.x) + Abs(enemies[i].y - player.y)
\* the enemies at distance 1, at distance 2..chase range, and beyond
C18_Attackers == {i \in LiveEnemies : C18_Distance(i) = 1}
C18_Chasers == {i \in LiveEnemies : C18_Distance(i) >= 2 /\ C18_Distance(i) <= ChaseRange}
C18_Idlers == {i \in LiveEnemies : C18_Distance(i) > ChaseRange}
\* the hp the player is left with after one attack by each enemy of S
C18_HpAfter(S) ==
    { Max(0, player.hp - C12_Sum([i \in S |-> Max(1, enemies[i].power - vs[i])], S)) :
        vs \in [S -> 0 .. ENEMY_VARIANCE] }
\* C18: in the enemy phase every live enemy does exactly one of three things,
\* by its Manhattan distance d to the player: at d = 1 it attacks and keeps its
\* position; at 2 <= d <= chase range its new position is the movement
\* planner's and it does not attack; at d > chase range it neither moves nor
\* attacks.  So the player loses exactly one attack per enemy at distance 1.
C18_OneOfThree ==
    [][pc = "enemy_phase" =>
          /\ LiveEnemies = C18_Attackers \cup C18_Chasers \cup C18_Idlers
          /\ \A i \in C18_Attackers \cup C18_Idlers : enemies'[i] = enemies[i]
          /\ \A i \in C18_Chasers :
                enemies'[i] = move_toward(enemies[i], player.x, player.y, tiles,
                                          C5_SnapshotAt(i), i, player.x, player.y)
          /\ player'.hp \in C18_HpAfter(C18_Attackers)
          /\ player' = [player EXCEPT !.hp = player'.hp]]_vars
\* an enemy phase is about to run with one live enemy next to the player and
\* another beyond the chase range
C18_Witness ==
    /\ pc = "enemy_phase"
    /\ C18_Attackers # {} /\ C18_Idlers # {}

\* cell c can be entered by enemy i, es being the enemy positions its collision
\* check reads: c is a walkable cell of the grid, not the player's, and not the
\* cell of another live enemy
C19_Free(c, i, es) ==
    /\ c \in Cells /\ tiles[c] # "Wall"
    /\ c # <<player.x, player.y>>
    /\ \A j \in 1 .. Len(es) :
          (j # i /\ es[j].hp > 0) => c # <<es[j].x, es[j].y>>
\* the three candidate cells of enemy i, in the order they are tried: the step
\* on both axes, the horizontal step, the vertical step
C19_Candidates(i) ==
    LET e == enemies[i]
        sx == Signum(player.x - e.x)
        sy == Signum(player.y - e.y)
    IN  << <<e.x + sx, e.y + sy>>, <<e.x + sx, e.y>>, <<e.x, e.y + sy>> >>
\* the cell enemy i ends on: the first free candidate, or its own cell
C19_Choice(i, es) ==
    LET cs == C19_Candidates(i)
    IN  IF C19_Free(cs[1], i, es) THEN cs[1]
        ELSE IF C19_Free(cs[2], i, es) THEN cs[2]
        ELSE IF C19_Free(cs[3], i, es) THEN cs[3]
        ELSE <<enemies[i].x, enemies[i].y>>
\* C19: an enemy that chases (alive, distance 2..chase range) takes the unit
\* step towards the player on each axis and ends on the first of the
\* candidates both-axis step, horizontal-only step, vertical-only step whose
\* cell is walkable and is neither the player's cell nor the cell of another
\* live enemy; if none qualifies it stays where it is.  Only its position
\* changes, by at most one cell per axis.
C19_FirstFreeCandidate ==
    [][pc = "enemy_phase" =>
          \A i \in C18_Chasers :
              /\ <<enemies'[i].x, enemies'[i].y>> = C19_Choice(i, C5_SnapshotAt(i))
              /\ enemies'[i] = [enemies[i] EXCEPT !.x = enemies'[i].x,
                                                  !.y = enemies'[i].y]
              /\ Abs(enemies'[i].x - enemies[i].x) <= 1
              /\ Abs(enemies'[i].y - enemies[i].y) <= 1]_vars
\* an enemy phase is about to run in which a chasing enemy, off the player's row
\* and column, finds the both-axis cell blocked and the two others free
C19_Witness ==
    /\ pc = "enemy_phase"
    /\ \E i \in C18_Chasers :
          /\ enemies[i].x # player.x /\ enemies[i].y # player.y
          /\ ~C19_Free(C19_Candidates(i)[1], i, enemies)
          /\ C19_Free(C19_Candidates(i)[2], i, enemies)
          /\ C19_Free(C19_Candidates(i)[3], i, enemies)

\* the cells whose tile changes in a step
C20_Changed == {c \in Cells : tiles'[c] # tiles[c]}
\* the player steps onto a new cell in this step
C20_Stepped == <<player'.x, player'.y>> # <<player.x, player.y>>
\* C20: during play the room list never changes, and a tile changes only in
\* player resolution, from Potion to Floor, at the cell the player has just
\* stepped onto; a step onto a Potion cell turns it to Floor and sets the
\* player's hp to min(hp + 5, max_hp); the player's hp never rises otherwise, so
\* each potion heals at most once.
C20_PotionOnly ==
    [][Born =>
          /\ rooms' = rooms
          /\ \A c \in C20_Changed :
                /\ tiles[c] = "Potion" /\ tiles'[c] = "Floor"
                /\ pc = "await_input" /\ action'.kind = "Move"
                /\ C20_Stepped /\ c = <<player'.x, player'.y>>
          /\ (C20_Stepped /\ get_tile(tiles, player'.x, player'.y) = "Potion") =>
                /\ C20_Changed = {<<player'.x, player'.y>>}
                /\ player'.hp = Min(player.hp + HEAL_AMOUNT, player.max_hp)
          /\ player'.hp > player.hp =>
                C20_Stepped /\ get_tile(tiles, player'.x, player'.y) = "Potion"]_vars
\* between two turns the player is at full hp while a wounded enemy is alive:
\* an enemy the player wounds strikes back in the same turn, so the player has
\* been wounded and then healed up to max_hp by a potion; no potion is left
C20_Witness ==
    /\ pc = "await_input" /\ running
    /\ player.hp = player.max_hp
    /\ \A c \in Cells : tiles[c] # "Potion"
    /\ \E i \in LiveEnemies : enemies[i].hp < enemies[i].max_hp

\* c lies between a and b (inclusive), in either order
C21_Between(v, a, b) == (a <= v /\ v <= b) \/ (b <= v /\ v <= a)
\* the cells of the two carved lines from centre p to centre n
C21_OnLines(c, p, n, horizontalFirst) ==
    IF horizontalFirst
    THEN \/ c[2] = p[2] /\ C21_Between(c[1], p[1], n[1])
         \/ c[1] = n[1] /\ C21_Between(c[2], p[2], n[2])
    ELSE \/ c[1] = p[1] /\ C21_Between(c[2], p[2], n[2])
         \/ c[2] = n[2] /\ C21_Between(c[1], p[1], n[1])
\* C21: corridor carving changes a cell only from Wall to Corridor: when a room
\* is accepted and linked to the previous one, every cell outside the new room
\* that was not Wall (Floor of another room, Corridor of an earlier link) keeps
\* its tile, the cells of the new room are Floor after the link is carved, and
\* a cell changes to Corridor only if it was Wall and lies on one of the two
\* carved lines; every other cell is unchanged.
C21_CarveOnlyWalls ==
    [][(pc = "generate" /\ Len(rooms') = Len(rooms) + 1) =>
          LET new == rooms'[Len(rooms')]
          IN  /\ \A c \in Cells :
                    (tiles[c] # "Wall" /\ ~InRoom(c, new)) => tiles'[c] = tiles[c]
              /\ \A c \in Cells : InRoom(c, new) => tiles'[c] = "Floor"
              /\ Len(rooms) = 0 =>
                    \A c \in Cells : ~InRoom(c, new) => tiles'[c] = tiles[c]
              /\ Len(rooms) > 0 =>
                    \E horizontalFirst \in BOOLEAN :
                        \A c \in Cells :
                            ~InRoom(c, new) =>
                                tiles'[c] =
                                    IF /\ tiles[c] = "Wall"
                                       /\ C21_OnLines(c, center(rooms[Len(rooms)]),
                                                      center(new), horizontalFirst)
                                    THEN "Corridor" ELSE tiles[c]]_vars
\* three rooms are placed and the link from the second to the third ran across
\* the floor of the first, which is still Floor; a Corridor cell lies on that
\* link and on the line from the first room to the second
C21_Witness ==
    /\ pc = "generate" /\ Len(rooms) = 3
    /\ \E horizontalFirst \in BOOLEAN :
          /\ \E c \in Cells :
                /\ InRoom(c, rooms[1]) /\ tiles[c] = "Floor"
                /\ C21_OnLines(c, center(rooms[2]), center(rooms[3]), horizontalFirst)
          /\ \E c \in Cells :
                /\ tiles[c] = "Corridor"
                /\ C21_OnLines(c, center(rooms[1]), center(rooms[2]), TRUE)
                /\ C21_OnLines(c, center(rooms[2]), center(rooms[3]), horizontalFirst)

\* C22: reveal_room(i) for a valid room index sets the revealed flag of exactly
\* the cells of the room's rectangle grown by one cell on every side, as far as
\* they lie in the grid (interior, the four edges, the four corners), and
\* leaves every other flag as it was; for an index that is not below the
\* number of rooms it changes nothing.
C22_RevealExact ==
    [][pc = "await_input" =>
          IF attempt < Len(rooms)
          THEN \A c \in Cells :
                  revealed'[c] = (revealed[c] \/ InHalo(c, rooms[attempt + 1]))
          ELSE revealed' = revealed]_vars
\* both calls were made for two rooms: the first lies in a corner of the grid,
\* so its grown rectangle is cut by the border; the second call left revealed a
\* cell that only the first had revealed, and a cell is still hidden
C22_Witness ==
    /\ Len(rooms) = 2 /\ attempt = 2
    /\ rooms[1].x = 0 /\ rooms[1].y = 0
    /\ \E c \in Cells : revealed[c] /\ InHalo(c, rooms[1]) /\ ~InHalo(c, rooms[2])
    /\ \E c \in Cells : ~revealed[c]

\* the rooms that contain cell c
C23_RoomsOf(c) == {k \in 1 .. Len(rooms) : InRoom(c, rooms[k])}
\* the four orthogonal neighbours of cell c
C23_Neighbours(c) ==
    { <<c[1] - 1, c[2]>>, <<c[1] + 1, c[2]>>, <<c[1], c[2] - 1>>, <<c[1], c[2] + 1>> }
\* the cells a step onto cell c has to reveal, by the tile of c before the step
C23_Required(c) ==
    {c}
    \cup (IF tiles[c] = "Corridor"
          THEN {d \in Cells : Abs(d[1] - c[1]) <= 1 /\ Abs(d[2] - c[2]) <= 1}
          ELSE {})
    \cup (IF tiles[c] = "Door"
          THEN {d \in Cells : \E n \in C23_Neighbours(c) :
                                  \E k \in C23_RoomsOf(n) : InHalo(d, rooms[k])}
          ELSE {})
    \cup {d \in Cells : \E k \in C23_RoomsOf(c) : InHalo(d, rooms[k])}
\* C23: after every player move that succeeds, to a cell c: c is revealed; if c
\* is Corridor, every cell of the grid in the 3x3 block centred on c is
\* revealed; if c is a Door, every room that holds one of the 4 orthogonal
\* neighbours of c is revealed, interior and border; if c lies in a room, that
\* room is revealed, interior and border.  (The step reveals nothing else.)
C23_RevealOnMove ==
    [][(pc = "await_input" /\ action'.kind = "Move" /\ C20_Stepped) =>
          LET c == <<player'.x, player'.y>>
          IN  /\ \A d \in C23_Required(c) : revealed'[d]
              /\ \A d \in Cells : revealed'[d] => (revealed[d] \/ d \in C23_Required(c))]_vars
\* the player has stepped onto a door from the first room, and the room on the
\* other side of the door is revealed, interior and border, before the player
\* has entered it
C23_Witness ==
    /\ pc = "enemy_phase" /\ action.kind = "Move"
    /\ tiles[<<player.x, player.y>>] = "Door"
    /\ <<player.x - action.dx, player.y - action.dy>> = center(rooms[1])
    /\ \E k \in 2 .. Len(rooms) :
          /\ \E n \in C23_Neighbours(<<player.x, player.y>>) : k \in C23_RoomsOf(n)
          /\ \A d \in Cells : InHalo(d, rooms[k]) => revealed[d]

\* Manhattan distance of enemy i to the player after the step
C24_DistanceAfter(i) == Abs(enemies'[i].x - player'.x) + Abs(enemies'[i].y - player'.y)
\* C24: whenever the enemy phase changes an enemy's position, its Manhattan
\* distance to the player becomes smaller by 1 or by 2; no enemy ends the phase
\* further from the player than it began, and no live enemy ends it on the
\* player's cell.
C24_Approach ==
    [][pc = "enemy_phase" =>
          /\ <<player'.x, player'.y>> = <<player.x, player.y>>
          /\ \A i \in 1 .. Len(enemies) :
                /\ C24_DistanceAfter(i) <= C18_Distance(i)
                /\ <<enemies'[i].x, enemies'[i].y>> # <<enemies[i].x, enemies[i].y>> =>
                      /\ C18_Distance(i) - C24_DistanceAfter(i) \in {1, 2}
                      /\ C24_DistanceAfter(i) >= 1
                /\ enemies[i].hp > 0 => C24_DistanceAfter(i) >= 1]_vars
\* an enemy phase is about to run in which a chasing enemy at distance 3, off
\* the player's row and column, is free to take the step on both axes
C24_Witness ==
    /\ pc = "enemy_phase"
    /\ \E i \in C18_Chasers :
          /\ C18_Distance(i) = 3
          /\ enemies[i].x # player.x /\ enemies[i].y # player.y
          /\ C19_Free(C19_Candidates(i)[1], i, enemies)

\* C25: the two terminal conditions never hold together: in every state of the
\* game in which the player's hp is 0 some enemy is alive.  So a GameOver is
\* signalled only with the player dead and an enemy alive, a Victory only with
\* the player alive and every enemy dead, and an outcome, once signalled, is
\* never replaced by another.
C25_Exclusive ==
    /\ [](Born =>
            /\ player.hp = 0 => LiveEnemies # {}
            /\ outcome = "GameOver" => player.hp = 0 /\ LiveEnemies # {}
            /\ outcome = "Victory" => player.hp > 0 /\ LiveEnemies = {})
    /\ [][outcome # "None" => outcome' = outcome]_vars
\* the player has killed one enemy and has then been killed by the other; the
\* state check is about to run
C25_Witness ==
    /\ pc = "state_check" /\ player.hp = 0
    /\ Cardinality(LiveEnemies) = 1 /\ Len(enemies) = 2

\* C26: only a directional intent advances the turn.  An intent that is no
\* direction leaves the player, the enemies, the grid and the revealed flags
\* unchanged and is followed by the next wait for an intent; the enemy phase
\* and the state check are entered only in a turn opened by a directional
\* intent, and such a turn always goes on to the enemy phase (the player being
\* alive) and then to the state check, also when the step was blocked and
\* changed nothing.
C26_OnlyMovesAdvance ==
    [][/\ (pc = "await_input" /\ running /\ action'.kind = "None") =>
              /\ pc' = "await_input"
              /\ UNCHANGED <<player, enemies, tiles, revealed, rooms, running, outcome>>
       /\ (pc = "await_input" /\ pc' \in {"enemy_phase", "state_check"}) =>
              action'.kind = "Move"
       /\ (pc = "await_input" /\ action'.kind = "Move") =>
              /\ pc' = IF player'.hp > 0 THEN "enemy_phase" ELSE "state_check"
              /\ C17_Blocked =>
                    /\ UNCHANGED <<player, enemies, tiles, revealed>>
                    /\ pc' = "enemy_phase"
       /\ pc = "enemy_phase" => action.kind = "Move" /\ pc' = "state_check"
       /\ pc = "state_check" => action.kind = "Move"]_vars
\* the player has walked into a wall (the cells before and behind it on the
\* axis of the step are not walkable, so the step was blocked) and the enemy
\* phase of that turn is about to run, with an enemy that will attack or move
C26_Witness ==
    /\ pc = "enemy_phase" /\ action.kind = "Move"
    /\ ~is_walkable(tiles, AsUsize(player.x + action.dx), AsUsize(player.y + action.dy))
    /\ ~is_walkable(tiles, AsUsize(player.x - action.dx), AsUsize(player.y - action.dy))
    /\ C18_Attackers \cup C18_Chasers # {}

====
